---- MODULE Spec2Model ----
(***************************************************************************)
(* Model of gt-scheduler/crawler-v2, finals scraping:                      *)
(*   src/src/Parse.py   Parser.convertTimeGroup, Parser.parseBlock,        *)
(*                      ParserV1/V2/V3.parseFile, Parser.parseCommon       *)
(*   src/src/Revise.py  Revise.iterFiles, Revise.process, Section          *)
(*                                                                         *)
(* A Python str is modelled as a sequence of one-character strings, so     *)
(* that the regular expressions of Parse.py are computed on characters.    *)
(***************************************************************************)
EXTENDS Integers, Sequences, FiniteSets, TLC

VARIABLES
    time_group,     \* convertTimeGroup: the argument text
    timeResult,     \* convertTimeGroup: the returned text, NoResult before the call
    listing,        \* iterFiles: the entries of ./data/, in iteration order
    idx,            \* iterFiles: position of the loop in the listing
    pc,             \* iterFiles: position of the control flow
    success,        \* iterFiles: the local flag success
    parser,         \* iterFiles: version of the object bound to parser, 0 if none
    attempts,       \* per entry, the parseFile/parseCommon attempts made and how each ended
    missing,        \* entries whose parser in use found the source data missing
    failed,         \* iterFiles: the local set failed
    exported,       \* entries whose <stem>_Finals.csv has been written by export
    rewritten,      \* entries whose catalog file has been rewritten by process
    disk,           \* temporary PDF files present in the working directory
    created,        \* temporary files written by the last parseFile call
    summary,        \* what the final summary printed, NotPrinted before it
    version,        \* parseFile: layout version of the parser at work (1, 2, 3)
    copyOnWrite,    \* parseFile: the installed pandas has copy-on-write (3.0 on): a
                    \* write to a selected column does not reach the DataFrame and
                    \* an integer key of a row is a label (row[1]: KeyError)
    ppc,            \* parseFile: position of the control flow
    nchunks,        \* parseFile: chunks of self.read consumed so far
    nblocks,        \* parseFile: results of parseBlock concatenated so far
    sections,       \* ParserV1.parseFile: the local set sections
    blockIn,        \* parseBlock: the rows of the block iterated so far, as extracted
    block,          \* parseBlock: the rows of the block as rebuilt so far
    sectionDate,    \* parseBlock: the nonlocal sectionDate
    sectionTime,    \* parseBlock: the nonlocal sectionTime
    schedule,       \* parseFile: the rows of schedule / self.schedule
    rSchedule,      \* process: self.schedule, (days, period) -> final date and time
    rCommon,        \* process: self.common, course -> date and time, or NoCommon
    dataIn,         \* process: the catalog document as json.load reads it
    dataFile,       \* process: the catalog document in the file
    prc,            \* process: "start", "returned" or "raised"
    commonChunk,    \* parseCommon: self.read holds a chunk labelled "Common Exams"
    commonRows,     \* parseCommon: the rows of that chunk under its header row
    commonTable,    \* parseCommon: the rows of self.common
    cpc             \* parseCommon: "start", "returned" or "raised"

timeVars == <<time_group, timeResult>>
reviseVars == <<listing, idx, pc, success, parser, attempts, missing, failed,
                exported, rewritten, disk, created, summary>>
parseVars == <<version, copyOnWrite, ppc, nchunks, nblocks, sections, blockIn,
               block, sectionDate, sectionTime, schedule>>
processVars == <<rSchedule, rCommon, dataIn, dataFile, prc>>
commonVars == <<commonChunk, commonRows, commonTable, cpc>>
vars == <<time_group, timeResult, listing, idx, pc, success, parser, attempts,
          missing, failed, exported, rewritten, disk, created, summary,
          version, copyOnWrite, ppc, nchunks, nblocks, sections, blockIn,
          block, sectionDate, sectionTime, schedule,
          rSchedule, rCommon, dataIn, dataFile, prc,
          commonChunk, commonRows, commonTable, cpc>>

(***************************************************************************)
(* Strings                                                                 *)
(***************************************************************************)
NoResult == <<"<", "n", "o", "n", "e", ">">>
TBA == <<"T", "B", "A">>
NotPrinted == <<"not printed">>

DigitChars == {"0", "1", "2", "3", "4", "5", "6", "7", "8", "9"}

DigitVal(c) ==
    CASE c = "0" -> 0 [] c = "1" -> 1 [] c = "2" -> 2 [] c = "3" -> 3
      [] c = "4" -> 4 [] c = "5" -> 5 [] c = "6" -> 6 [] c = "7" -> 7
      [] c = "8" -> 8 [] c = "9" -> 9

DigitChar(n) ==
    CASE n = 0 -> "0" [] n = 1 -> "1" [] n = 2 -> "2" [] n = 3 -> "3"
      [] n = 4 -> "4" [] n = 5 -> "5" [] n = 6 -> "6" [] n = 7 -> "7"
      [] n = 8 -> "8" [] n = 9 -> "9"

\* s[i], or the empty string past either end of s
At(s, i) == IF i >= 1 /\ i <= Len(s) THEN s[i] ELSE ""

IsDigit(s, i) == At(s, i) \in DigitChars

RECURSIVE Concat(_)
Concat(ss) == IF ss = <<>> THEN <<>> ELSE Head(ss) \o Concat(Tail(ss))

\* int(text) of a run of decimal digits
RECURSIVE StrToInt(_)
StrToInt(ds) ==
    IF ds = <<>> THEN 0
    ELSE 10 * StrToInt(SubSeq(ds, 1, Len(ds) - 1)) + DigitVal(ds[Len(ds)])

\* str(n) of a natural number
RECURSIVE IntToStr(_)
IntToStr(n) ==
    IF n < 10 THEN <<DigitChar(n)>>
    ELSE IntToStr(n \div 10) \o <<DigitChar(n % 10)>>

(***************************************************************************)
(* Parser.convertTimeGroup (Parse.py 53-67)                                *)
(***************************************************************************)
\* One attempt of ((\d{1,2}):(\d{2}) (a|p)m) at position i with an hour of h digits
TimeTokenLen(s, i, h) ==
    /\ \A k \in 0..(h - 1) : IsDigit(s, i + k)
    /\ At(s, i + h) = ":"
    /\ IsDigit(s, i + h + 1)
    /\ IsDigit(s, i + h + 2)
    /\ At(s, i + h + 3) = " "
    /\ At(s, i + h + 4) \in {"a", "p"}
    /\ At(s, i + h + 5) = "m"

\* Length of the hour of the match at i (greedy: two digits first), 0 if no match
TimeTokenAt(s, i) ==
    IF TimeTokenLen(s, i, 2) THEN 2
    ELSE IF TimeTokenLen(s, i, 1) THEN 1
    ELSE 0

\* re.findall: the groups of the non-overlapping matches, leftmost first
RECURSIVE FindTimeTokens(_, _)
FindTimeTokens(s, i) ==
    IF i > Len(s) THEN <<>>
    ELSE LET h == TimeTokenAt(s, i) IN
         IF h = 0 THEN FindTimeTokens(s, i + 1)
         ELSE <<  << SubSeq(s, i, i + h + 5),
                     SubSeq(s, i, i + h - 1),
                     SubSeq(s, i + h + 1, i + h + 2),
                     At(s, i + h + 4) >>  >>
              \o FindTimeTokens(s, i + h + 6)

\* new_hour of one match: str(int(hour) % 12 + (12 if ampm == 'p' else 0))
NewHourValue(hour, ampm) ==
    (StrToInt(hour) % 12) + (IF ampm = "p" THEN 12 ELSE 0)

PadHour(new_hour) ==
    IF Len(new_hour) = 2 THEN new_hour ELSE <<"0">> \o new_hour

ConvertToken(time) ==
    PadHour(IntToStr(NewHourValue(time[2], time[4]))) \o time[3]

convertTimeGroup(text) ==
    LET matching_groups == FindTimeTokens(text, 1) IN
    IF Len(matching_groups) # 2 THEN TBA
    ELSE IF \E k \in 1..2 : Len(matching_groups[k]) # 4 THEN TBA
    ELSE ConvertToken(matching_groups[1]) \o <<" ", "-", " ">>
         \o ConvertToken(matching_groups[2])

(***************************************************************************)
(* convertTimeGroup applied to texts built from a few fragments            *)
(***************************************************************************)
MaxFrags == 3

TimeFragments ==
    { <<"1", "0", ":", "2", "0", " ", "a", "m">>,
      <<"2", ":", "5", "0", " ", "p", "m">>,
      <<"1", "0", ":", "2", "0", "a", "m">>,
      <<"2", ":", "5", "0", "p", "m">>,
      <<" ", "-", " ">>,
      <<"1", "2", ":", "0", "5", " ", "a", "m">>,
      <<"1", "0", ":", "7", "5", " ", "a", "m">>,
      <<"g", "a", "r", "b", "a", "g", "e">>,
      <<"9", ":", "5", "9", " ", "p", "m", " ", "1">> }

RECURSIVE SeqsUpTo(_, _)
SeqsUpTo(S, n) ==
    IF n = 0 THEN {<<>>}
    ELSE LET shorter == SeqsUpTo(S, n - 1) IN
         shorter \cup {Append(q, x) : q \in {r \in shorter : Len(r) = n - 1}, x \in S}

TimeTexts == {Concat(fs) : fs \in SeqsUpTo(TimeFragments, MaxFrags)}

\* no parseCommon is running
CommonIdle ==
    /\ commonChunk = FALSE
    /\ commonRows = <<>>
    /\ commonTable = <<>>
    /\ cpc = "idle"

\* no process is running
ProcessIdle ==
    /\ rSchedule = <<>>
    /\ rCommon = <<>>
    /\ dataIn = <<>>
    /\ dataFile = <<>>
    /\ prc = "idle"

\* no parseFile is running
ParseIdle ==
    /\ version = 0
    /\ copyOnWrite = FALSE
    /\ ppc = "idle"
    /\ nchunks = 0
    /\ nblocks = 0
    /\ sections = {}
    /\ blockIn = <<>>
    /\ block = <<>>
    /\ sectionDate = <<>>
    /\ sectionTime = <<>>
    /\ schedule = <<>>

\* iterFiles is not running
ReviseIdle ==
    /\ listing = <<>>
    /\ idx = 1
    /\ pc = "idle"
    /\ success = FALSE
    /\ parser = 0
    /\ attempts = <<>>
    /\ missing = {}
    /\ failed = {}
    /\ exported = {}
    /\ rewritten = {}
    /\ disk = {}
    /\ created = {}
    /\ summary = NotPrinted

InitTime ==
    /\ time_group \in TimeTexts
    /\ timeResult = NoResult
    /\ ReviseIdle
    /\ ParseIdle
    /\ ProcessIdle
    /\ CommonIdle

\* one call of convertTimeGroup(time_group)
CallConvertTimeGroup ==
    /\ timeResult = NoResult
    /\ timeResult' = convertTimeGroup(time_group)
    /\ UNCHANGED time_group
    /\ UNCHANGED <<reviseVars, parseVars, processVars, commonVars>>

NextTime == CallConvertTimeGroup

SpecTime == InitTime /\ [][NextTime]_vars

(***************************************************************************)
(* Properties of convertTimeGroup                                          *)
(***************************************************************************)
TwoDigitValue(r, i) == 10 * DigitVal(r[i]) + DigitVal(r[i + 1])

\* HHMM - HHMM with 00 <= HH <= 23 and 00 <= MM <= 59
IsCanonicalRange(r) ==
    /\ Len(r) = 11
    /\ \A i \in {1, 2, 3, 4, 8, 9, 10, 11} : r[i] \in DigitChars
    /\ SubSeq(r, 5, 7) = <<" ", "-", " ">>
    /\ TwoDigitValue(r, 1) <= 23
    /\ TwoDigitValue(r, 3) <= 59
    /\ TwoDigitValue(r, 8) <= 23
    /\ TwoDigitValue(r, 10) <= 59

\* C8: for every text, convertTimeGroup returns "TBA" or HHMM - HHMM with
\* hours in 00..23 and minutes in 00..59, and returns "TBA" whenever the
\* number of time tokens found is not exactly two.
C8_CanonicalOrTBA ==
    timeResult # NoResult =>
        /\ timeResult = TBA \/ IsCanonicalRange(timeResult)
        /\ Len(FindTimeTokens(time_group, 1)) # 2 => timeResult = TBA

\* a call that returned a range whose minute field is above 59
C8_MinutesAbove59 ==
    /\ timeResult # NoResult
    /\ timeResult # TBA
    /\ Len(timeResult) = 11
    /\ TwoDigitValue(timeResult, 3) > 59

\* the hour of a token as the documentation states it: hour mod 12, plus 12
\* for pm, on two digits
DocumentedToken(hour, minute, pm) ==
    LET h == (hour % 12) + (IF pm THEN 12 ELSE 0) IN
    <<DigitChar(h \div 10), DigitChar(h % 10)>> \o minute

DocExampleText == <<"1", "0", ":", "2", "0", "a", "m", " ", "-", " ", "2", ":", "5", "0", "p", "m">>
DocExampleResult == <<"1", "0", "2", "0", " ", "-", " ", "1", "4", "5", "0">>

\* C9: a text with exactly two time tokens yields the two tokens converted
\* (hour mod 12, plus 12 for pm, two digits; minutes unchanged) joined by
\* " - "; in particular "10:20am - 2:50pm" yields "1020 - 1450".
C9_TwoTokensConverted ==
    timeResult # NoResult =>
        LET found == FindTimeTokens(time_group, 1) IN
        /\ Len(found) = 2 =>
             timeResult =
                 DocumentedToken(StrToInt(found[1][2]), found[1][3], found[1][4] = "p")
                 \o <<" ", "-", " ">>
                 \o DocumentedToken(StrToInt(found[2][2]), found[2][3], found[2][4] = "p")
        /\ time_group = DocExampleText => timeResult = DocExampleResult

\* the documented example has been converted
C9_DocExampleConverted ==
    /\ time_group = DocExampleText
    /\ timeResult # NoResult

(***************************************************************************)
(* ParserV1/V2/V3.parseFile and Parser.parseCommon, as the orchestrator    *)
(* sees them: how the call ends, whether self.read was set, and which      *)
(* temporary files it wrote and left behind.  The environment of one call  *)
(* (the fetch, PyPDF2, tabula, the layout of the extracted tables) is the  *)
(* argument env.                                                           *)
(***************************************************************************)
NumFiles == 2

\* a directory entry: a file that is no <digits>.json, a term file whose stem
\* is a key of matrix.json, a term file whose stem is not
EntryKinds == {"other", "known", "unknown"}

EnvV1 == {"tabulaFails", "layoutMismatch", "assembles"}
EnvV2 == {"fetchFails", "cropRaises", "tabulaFails", "layoutMismatch", "assembles"}
EnvV3 == {"fetchFails", "readerRaises", "cropLeftRaises", "cropRightRaises",
          "tabulaLeftFails", "tabulaRightFails", "layoutMismatch", "assembles"}
EnvCommon == {"commonRaises", "commonParses"}

Downloaded(f) == <<"downloaded", f>>
Cropped(f) == <<"cropped", f>>
CroppedLeft(f) == <<"cropped_left", f>>
CroppedRight(f) == <<"cropped_right", f>>

\* end: "none" (return None), "raised", "assembled" (self.schedule set)
\* read: self.read is not None;  wrote: files written;  kept: files not unlinked
Outcome(end, read, wrote, kept) ==
    [end |-> end, read |-> read, wrote |-> wrote, kept |-> kept]

ParseFileV1(f, kind, env) ==
    IF kind = "unknown" THEN Outcome("none", FALSE, {}, {})
    ELSE IF env = "tabulaFails" THEN Outcome("none", FALSE, {}, {})
    ELSE IF env = "layoutMismatch" THEN Outcome("raised", TRUE, {}, {})
    ELSE Outcome("assembled", TRUE, {}, {})

ParseFileV2(f, kind, env) ==
    IF kind = "unknown" THEN Outcome("none", FALSE, {}, {})
    ELSE IF env = "fetchFails" THEN Outcome("none", FALSE, {}, {})
    ELSE IF env = "cropRaises"
         THEN Outcome("raised", FALSE, {Downloaded(f)}, {Downloaded(f)})
    ELSE IF env = "tabulaFails"
         THEN Outcome("raised", FALSE, {Downloaded(f), Cropped(f)},
                      {Downloaded(f), Cropped(f)})
    ELSE IF env = "layoutMismatch"
         THEN Outcome("raised", TRUE, {Downloaded(f), Cropped(f)}, {})
    ELSE Outcome("assembled", TRUE, {Downloaded(f), Cropped(f)}, {})

ParseFileV3(f, kind, env) ==
    LET all == {Downloaded(f), CroppedLeft(f), CroppedRight(f)} IN
    IF kind = "unknown" THEN Outcome("none", FALSE, {}, {})
    ELSE IF env = "fetchFails" THEN Outcome("none", FALSE, {}, {})
    ELSE IF env \in {"readerRaises", "cropLeftRaises"}
         THEN Outcome("raised", FALSE, {Downloaded(f)}, {Downloaded(f)})
    ELSE IF env = "cropRightRaises"
         THEN Outcome("raised", FALSE, {Downloaded(f), CroppedLeft(f)},
                      {Downloaded(f), CroppedLeft(f)})
    ELSE IF env = "tabulaLeftFails" THEN Outcome("none", FALSE, all, all)
    ELSE IF env = "tabulaRightFails" THEN Outcome("none", TRUE, all, all)
    ELSE IF env = "layoutMismatch" THEN Outcome("raised", TRUE, all, {})
    ELSE Outcome("assembled", TRUE, all, {})

parseFile(v, f, kind, env) ==
    CASE v = 1 -> ParseFileV1(f, kind, env)
      [] v = 2 -> ParseFileV2(f, kind, env)
      [] v = 3 -> ParseFileV3(f, kind, env)

EnvOf(v) == CASE v = 1 -> EnvV1 [] v = 2 -> EnvV2 [] v = 3 -> EnvV3

\* parseCommon raises only past its early return on self.read is None
ParseCommonRaises(read, cenv) == read /\ cenv = "commonRaises"

(***************************************************************************)
(* Revise.iterFiles (Revise.py 43-89)                                      *)
(***************************************************************************)
Init ==
    /\ time_group = <<>>
    /\ timeResult = NoResult
    /\ listing \in [1..NumFiles -> EntryKinds]
    /\ idx = 1
    /\ pc = "loop"
    /\ success = FALSE
    /\ parser = 0
    /\ attempts = [f \in 1..NumFiles |-> <<>>]
    /\ missing = {}
    /\ failed = {}
    /\ exported = {}
    /\ rewritten = {}
    /\ disk = {}
    /\ created = {}
    /\ summary = NotPrinted
    /\ ParseIdle
    /\ ProcessIdle
    /\ CommonIdle

\* a fallback that goes from V1 straight to V3
FallbackSkipsV2(v) == CASE v = 1 -> "v3" [] v = 2 -> "v3" [] v = 3 -> "after"

\* where the control goes when the parser of version v raised
FallbackAfter(v) == CASE v = 1 -> "v2" [] v = 2 -> "v3" [] v = 3 -> "after"

PcOfTry(v) == CASE v = 1 -> "loop" [] v = 2 -> "v2" [] v = 3 -> "v3"

\* parser = ParserVn(); parser.parseFile(file.stem); parser.parseCommon(); success = True
TryParser(v) ==
    /\ pc = PcOfTry(v)
    /\ idx <= Len(listing)
    /\ listing[idx] # "other"
    /\ \E env \in EnvOf(v), cenv \in EnvCommon :
         LET o == parseFile(v, idx, listing[idx], env)
             raised == o.end = "raised" \/ (o.end # "raised" /\ ParseCommonRaises(o.read, cenv))
         IN /\ parser' = v
            /\ attempts' = [attempts EXCEPT ![idx] = Append(@, [version |-> v, raised |-> raised])]
            /\ created' = o.wrote
            /\ disk' = (disk \ o.wrote) \cup o.kept
            /\ success' = ~raised
            /\ missing' = IF ~raised /\ o.end = "none" THEN missing \cup {idx}
                          ELSE missing
            /\ pc' = IF raised THEN FallbackAfter(v) ELSE "after"
    /\ UNCHANGED <<listing, idx, failed, exported, rewritten, summary>>
    /\ UNCHANGED <<timeVars, parseVars, processVars, commonVars>>

TryV1 == TryParser(1)
TryV2 == TryParser(2)
TryV3 == TryParser(3)

\* if not re.match(r"\d+\.json", file.name): continue
SkipEntry ==
    /\ pc = "loop"
    /\ idx <= Len(listing)
    /\ listing[idx] = "other"
    /\ success' = FALSE
    /\ idx' = idx + 1
    /\ UNCHANGED <<listing, pc, parser, attempts, missing, failed, exported,
                   rewritten, disk, created, summary>>
    /\ UNCHANGED <<timeVars, parseVars, processVars, commonVars>>

\* if success: parser.export(...); an exception of to_csv leaves iterFiles
Export ==
    /\ pc = "after"
    /\ success
    /\ \E raises \in BOOLEAN :
         IF raises
         THEN /\ pc' = "crashed"
              /\ UNCHANGED exported
         ELSE /\ pc' = "process"
              /\ exported' = exported \cup {<<idx, parser>>}
    /\ UNCHANGED <<listing, idx, success, parser, attempts, missing, failed,
                   rewritten, disk, created, summary>>
    /\ UNCHANGED <<timeVars, parseVars, processVars, commonVars>>

\* self.process(); an exception of process leaves iterFiles
Process ==
    /\ pc = "process"
    /\ \E raises \in BOOLEAN :
         IF raises
         THEN /\ pc' = "crashed"
              /\ UNCHANGED <<rewritten, idx>>
         ELSE /\ pc' = "loop"
              /\ rewritten' = rewritten \cup {<<idx, parser>>}
              /\ idx' = idx + 1
    /\ UNCHANGED <<listing, success, parser, attempts, missing, failed,
                   exported, disk, created, summary>>
    /\ UNCHANGED <<timeVars, parseVars, processVars, commonVars>>

\* else: failed.add(file.stem)
RecordFailed ==
    /\ pc = "after"
    /\ ~success
    /\ failed' = failed \cup {idx}
    /\ idx' = idx + 1
    /\ pc' = "loop"
    /\ UNCHANGED <<listing, success, parser, attempts, missing, exported,
                   rewritten, disk, created, summary>>
    /\ UNCHANGED <<timeVars, parseVars, processVars, commonVars>>

\* print("Finished all files"); if failed: print(...)
PrintSummary ==
    /\ pc = "loop"
    /\ idx > Len(listing)
    /\ summary' = [finished |-> TRUE, failed |-> failed]
    /\ pc' = "done"
    /\ UNCHANGED <<listing, idx, success, parser, attempts, missing, failed,
                   exported, rewritten, disk, created>>
    /\ UNCHANGED <<timeVars, parseVars, processVars, commonVars>>

Next ==
    \/ TryV1
    \/ TryV2
    \/ TryV3
    \/ SkipEntry
    \/ Export
    \/ Process
    \/ RecordFailed
    \/ PrintSummary

Spec == Init /\ [][Next]_vars

(***************************************************************************)
(* Properties of iterFiles                                                 *)
(***************************************************************************)
\* the parsing of entry f is over: the loop is past it, or at its export,
\* its projection or its failed.add
ParsingOver(f) ==
    \/ f < idx
    \/ f = idx /\ pc \in {"after", "process", "crashed"}

AllRaised(f) == \A k \in 1..Len(attempts[f]) : attempts[f][k].raised

\* C3: the versions are tried in the order V1, V2, V3, the next one exactly
\* when the one before failed; the result exported and projected is that of
\* the first version that did not fail; an entry is recorded as failed, and
\* never exported or projected, exactly when all three versions failed.
C3_FixedFallbackOrder ==
    \A f \in 1..NumFiles :
        LET a == attempts[f]
            n == Len(a)
        IN /\ n <= 3
           /\ \A k \in 1..n : a[k].version = k
           /\ \A k \in 1..(n - 1) : a[k].raised
           /\ \A v \in 1..3 :
                <<f, v>> \in exported \cup rewritten => v = n /\ ~a[n].raised
           /\ f \in failed => n = 3 /\ AllRaised(f)
           /\ f \in failed => \A v \in 1..3 : <<f, v>> \notin exported \cup rewritten
           /\ ParsingOver(f) /\ listing[f] # "other" =>
                /\ n >= 1
                /\ a[n].raised => n = 3
                /\ f = idx /\ pc = "after" => success = ~a[n].raised
                /\ f < idx => (f \in failed <=> n = 3 /\ AllRaised(f))

\* one entry failed under all three versions and was recorded; another was
\* exported and projected from the V2 result after V1 failed
C3_FallbackAndFailure ==
    /\ \E f \in 1..NumFiles : f \in failed /\ Len(attempts[f]) = 3
    /\ \E g \in 1..NumFiles : <<g, 2>> \in exported /\ <<g, 2>> \in rewritten

\* C4: an entry whose source data is missing (stem not in matrix.json, fetch
\* failure, extraction failure) is not counted as a success, has no schedule
\* exported and its catalog file is not rewritten.
C4_MissingIsUnprocessed ==
    \A f \in missing :
        /\ f = idx => ~success
        /\ \A v \in 1..3 : <<f, v>> \notin exported
        /\ \A v \in 1..3 : <<f, v>> \notin rewritten

\* an entry absent from matrix.json has been exported and its catalog rewritten
C4_MissingRewritten ==
    \E f \in missing :
        /\ listing[f] = "unknown"
        /\ <<f, 1>> \in exported
        /\ <<f, 1>> \in rewritten

\* C5: the loop reaches every entry whatever fails on the way, and the
\* summary is always printed and lists exactly the entries that failed.
C5_BatchAlwaysCompletes ==
    pc \in {"done", "crashed"} =>
        /\ idx > Len(listing)
        /\ summary # NotPrinted
        /\ summary.failed = {f \in 1..NumFiles : Len(attempts[f]) = 3 /\ AllRaised(f)}

\* iterFiles was left by an exception of export or process with an entry
\* still to come
C5_LoopLeftEarly ==
    /\ pc = "crashed"
    /\ idx < Len(listing)
    /\ summary = NotPrinted

\* C6: when a V2 or V3 parseFile has ended, every temporary file it wrote
\* has been removed.
C6_TemporaryFilesRemoved ==
    parser \in {2, 3} => created \cap disk = {}

\* a V3 parseFile returned early after an extraction failure and its three
\* files are still there
C6_FilesLeftAfterEarlyReturn ==
    /\ parser = 3
    /\ success
    /\ idx \in missing
    /\ {Downloaded(idx), CroppedLeft(idx), CroppedRight(idx)} \subseteq disk

(***************************************************************************)
(* Character classes and string helpers of the regular expressions         *)
(* "CR" stands for the carriage return, "U2010" for the hyphen U+2010      *)
(***************************************************************************)
UpperChars == {"A", "B", "C", "D", "E", "F", "G", "H", "I", "J", "K", "L", "M",
               "N", "O", "P", "Q", "R", "S", "T", "U", "V", "W", "X", "Y", "Z"}
LowerChars == {"a", "b", "c", "d", "e", "f", "g", "h", "i", "j", "k", "l", "m",
               "n", "o", "p", "q", "r", "s", "t", "u", "v", "w", "x", "y", "z"}
LetterChars == UpperChars \cup LowerChars
WordChars == LetterChars \cup DigitChars \cup {"_"}
SpaceChars == {" ", "CR"}
HyphenChars == {"-", "U2010"}

\* values that are no str: None, and the float NaN of an empty cell
None == <<"None">>
NaN == <<"NaN">>
IsStr(x) == x # None /\ x # NaN

LowerOf(c) ==
    CASE c = "A" -> "a" [] c = "B" -> "b" [] c = "C" -> "c" [] c = "D" -> "d"
      [] c = "E" -> "e" [] c = "F" -> "f" [] c = "G" -> "g" [] c = "H" -> "h"
      [] c = "I" -> "i" [] c = "J" -> "j" [] c = "K" -> "k" [] c = "L" -> "l"
      [] c = "M" -> "m" [] c = "N" -> "n" [] c = "O" -> "o" [] c = "P" -> "p"
      [] c = "Q" -> "q" [] c = "R" -> "r" [] c = "S" -> "s" [] c = "T" -> "t"
      [] c = "U" -> "u" [] c = "V" -> "v" [] c = "W" -> "w" [] c = "X" -> "x"
      [] c = "Y" -> "y" [] c = "Z" -> "z" [] OTHER -> c

\* str.lower()
Lower(s) == [i \in 1..Len(s) |-> LowerOf(s[i])]

\* the last index of the longest run of characters of S that starts at i
\* (i - 1 when s[i] is not in S): a greedy S+ or S*
RunEnd(s, i, S) ==
    LET ends == {j \in (i - 1)..Len(s) : \A k \in i..j : s[k] \in S} IN
    IF ends = {} THEN i - 1 ELSE CHOOSE j \in ends : \A k \in ends : k <= j

\* the characters of lit stand in s from position i on
LiteralAt(s, i, lit) == \A k \in 1..Len(lit) : At(s, i + k - 1) = lit[k]

\* str.strip()
Strip(s) ==
    LET keep == {i \in 1..Len(s) : s[i] \notin SpaceChars} IN
    IF keep = {} THEN <<>>
    ELSE SubSeq(s, CHOOSE i \in keep : \A k \in keep : i <= k,
                   CHOOSE j \in keep : \A k \in keep : k <= j)

\* str.replace("U+2010", "-")
ReplaceHyphen(s) == [i \in 1..Len(s) |-> IF s[i] = "U2010" THEN "-" ELSE s[i]]

(***************************************************************************)
(* datetime.strptime / strftime as used by date() (Parse.py 100-121)       *)
(***************************************************************************)
\* the document: file stem, self.year = int(file[0:4])
FileStem == <<"2", "0", "2", "5", "0", "2">>
YearOf(file) == StrToInt(SubSeq(file, 1, 4))

WeekdayNames ==
    { <<"M", "o", "n", "d", "a", "y">>,
      <<"T", "u", "e", "s", "d", "a", "y">>,
      <<"W", "e", "d", "n", "e", "s", "d", "a", "y">>,
      <<"T", "h", "u", "r", "s", "d", "a", "y">>,
      <<"F", "r", "i", "d", "a", "y">>,
      <<"S", "a", "t", "u", "r", "d", "a", "y">>,
      <<"S", "u", "n", "d", "a", "y">> }

\* month number -> abbreviated name (%b), full name (%B), days in 1900
MonthTable ==
    << [abbr |-> <<"J", "a", "n">>, full |-> <<"J", "a", "n", "u", "a", "r", "y">>, days |-> 31],
       [abbr |-> <<"F", "e", "b">>, full |-> <<"F", "e", "b", "r", "u", "a", "r", "y">>, days |-> 28],
       [abbr |-> <<"M", "a", "r">>, full |-> <<"M", "a", "r", "c", "h">>, days |-> 31],
       [abbr |-> <<"A", "p", "r">>, full |-> <<"A", "p", "r", "i", "l">>, days |-> 30],
       [abbr |-> <<"M", "a", "y">>, full |-> <<"M", "a", "y">>, days |-> 31],
       [abbr |-> <<"J", "u", "n">>, full |-> <<"J", "u", "n", "e">>, days |-> 30],
       [abbr |-> <<"J", "u", "l">>, full |-> <<"J", "u", "l", "y">>, days |-> 31],
       [abbr |-> <<"A", "u", "g">>, full |-> <<"A", "u", "g", "u", "s", "t">>, days |-> 31],
       [abbr |-> <<"S", "e", "p">>, full |-> <<"S", "e", "p", "t", "e", "m", "b", "e", "r">>, days |-> 30],
       [abbr |-> <<"O", "c", "t">>, full |-> <<"O", "c", "t", "o", "b", "e", "r">>, days |-> 31],
       [abbr |-> <<"N", "o", "v">>, full |-> <<"N", "o", "v", "e", "m", "b", "e", "r">>, days |-> 30],
       [abbr |-> <<"D", "e", "c">>, full |-> <<"D", "e", "c", "e", "m", "b", "e", "r">>, days |-> 31] >>

\* %d: one or two digits, 1..31, no further digit
DayValue(ds) ==
    IF Len(ds) \in {1, 2} /\ (\A i \in 1..Len(ds) : ds[i] \in DigitChars)
       /\ StrToInt(ds) \in 1..31 /\ ~(Len(ds) = 1 /\ ds[1] = "0")
    THEN StrToInt(ds) ELSE 0

\* strptime(raw, "%m/%d") or "%m-%d": month and day numbers on either side of sep;
\* 0 for ValueError, else 100 * month + day
StrptimeNumeric(raw, sep) ==
    LET at == {i \in 1..Len(raw) : raw[i] = sep} IN
    IF Cardinality(at) # 1 THEN 0
    ELSE LET i == CHOOSE k \in at : TRUE
             m == DayValue(SubSeq(raw, 1, i - 1))
             d == DayValue(SubSeq(raw, i + 1, Len(raw)))
         IN IF m \in 1..12 /\ d >= 1 /\ d <= MonthTable[m].days
            THEN 100 * m + d ELSE 0

\* strptime(raw, "%A, %b %d") (full = FALSE) or "%A, %B %d" (full = TRUE):
\* names without regard to case, white space in the format matching one or
\* more white space characters; 0 for ValueError, else 100 * month + day
StrptimeNamed(raw, full) ==
    LET e1 == RunEnd(raw, 1, LetterChars)
        s2 == RunEnd(raw, e1 + 2, SpaceChars) + 1
        e2 == RunEnd(raw, s2, LetterChars)
        s3 == RunEnd(raw, e2 + 1, SpaceChars) + 1
        name == Lower(SubSeq(raw, s2, e2))
        ms == {m \in 1..12 :
                 name = Lower(IF full THEN MonthTable[m].full ELSE MonthTable[m].abbr)}
        d == DayValue(SubSeq(raw, s3, Len(raw)))
    IN IF /\ Lower(SubSeq(raw, 1, e1)) \in {Lower(w) : w \in WeekdayNames}
          /\ At(raw, e1 + 1) = ","
          /\ s2 > e1 + 2
          /\ ms # {}
          /\ s3 > e2 + 1
          /\ d >= 1
          /\ d <= MonthTable[CHOOSE m \in ms : TRUE].days
       THEN 100 * (CHOOSE m \in ms : TRUE) + d
       ELSE 0

\* the first of the four formats that parses raw: 0 if none does
FirstParsed(parsed) ==
    IF \A k \in 1..Len(parsed) : parsed[k] = 0 THEN 0
    ELSE parsed[CHOOSE k \in 1..Len(parsed) :
                    parsed[k] # 0 /\ \A j \in 1..(k - 1) : parsed[j] = 0]

Strptime(raw) ==
    FirstParsed(<<StrptimeNumeric(raw, "/"), StrptimeNumeric(raw, "-"),
                  StrptimeNamed(raw, FALSE), StrptimeNamed(raw, TRUE)>>)

\* parsed_date.replace(year=year).strftime("%b %d, %Y")
Strftime(md, year) ==
    MonthTable[md \div 100].abbr \o <<" ">>
    \o <<DigitChar((md % 100) \div 10), DigitChar(md % 10)>>
    \o <<",", " ">> \o IntToStr(year)

\* lines 113-114 when a format parsed (md # 0), line 121 when none did
FormatOrNone(md, year) == IF md # 0 THEN Strftime(md, year) ELSE None

\* date(n): the new value of sectionDate for the matched text raw
date(raw, year) == FormatOrNone(Strptime(raw), year)

(***************************************************************************)
(* The regular expressions of Parse.py (lines 19-24, 135, 175)             *)
(***************************************************************************)
\* dateSearch = \w+,\s\w+\s\d+ : last index of the match that starts at i, 0 if none
DateMatchEnd(s, i) ==
    LET e1 == RunEnd(s, i, WordChars)
        e2 == RunEnd(s, e1 + 3, WordChars)
        e3 == RunEnd(s, e2 + 2, DigitChars)
    IN IF /\ e1 >= i
          /\ At(s, e1 + 1) = ","
          /\ At(s, e1 + 2) \in SpaceChars
          /\ e2 >= e1 + 3
          /\ At(s, e2 + 1) \in SpaceChars
          /\ e3 >= e2 + 2
       THEN e3 ELSE 0

\* timeSearch = \d+:\d\d\s[PA]M\s*(U+2010|-)\s*\d+:\d\d [PA]M
TimeMatchEnd(s, i) ==
    LET d1 == RunEnd(s, i, DigitChars)
        w1 == RunEnd(s, d1 + 7, SpaceChars)
        w2 == RunEnd(s, w1 + 2, SpaceChars)
        d2 == RunEnd(s, w2 + 1, DigitChars)
    IN IF /\ d1 >= i
          /\ At(s, d1 + 1) = ":"
          /\ IsDigit(s, d1 + 2) /\ IsDigit(s, d1 + 3)
          /\ At(s, d1 + 4) \in SpaceChars
          /\ At(s, d1 + 5) \in {"P", "A"}
          /\ At(s, d1 + 6) = "M"
          /\ At(s, w1 + 1) \in HyphenChars
          /\ d2 >= w2 + 1
          /\ At(s, d2 + 1) = ":"
          /\ IsDigit(s, d2 + 2) /\ IsDigit(s, d2 + 3)
          /\ At(s, d2 + 4) = " "
          /\ At(s, d2 + 5) \in {"P", "A"}
          /\ At(s, d2 + 6) = "M"
       THEN d2 + 6 ELSE 0

\* dateSearch.sub(date, s) from position i on: every match is handed to date(),
\* which returns None, so the match is deleted from the text
RECURSIVE DateSub(_, _, _, _)
DateSub(s, i, secDate, year) ==
    IF i > Len(s) THEN [text |-> <<>>, sectionDate |-> secDate]
    ELSE LET e == DateMatchEnd(s, i) IN
         IF e > 0 THEN DateSub(s, e + 1, date(SubSeq(s, i, e), year), year)
         ELSE LET r == DateSub(s, i + 1, secDate, year) IN
              [text |-> <<s[i]>> \o r.text, sectionDate |-> r.sectionDate]

\* time(n): sectionTime is set only while it is still empty
time(group, secTime) ==
    IF secTime = <<>> THEN convertTimeGroup(Lower(group)) ELSE secTime

\* timeSearch.sub(time, s) from position i on
RECURSIVE TimeSub(_, _, _)
TimeSub(s, i, secTime) ==
    IF i > Len(s) THEN [text |-> <<>>, sectionTime |-> secTime]
    ELSE LET e == TimeMatchEnd(s, i) IN
         IF e > 0 THEN TimeSub(s, e + 1, time(SubSeq(s, i, e), secTime))
         ELSE LET r == TimeSub(s, i + 1, secTime) IN
              [text |-> <<s[i]>> \o r.text, sectionTime |-> r.sectionTime]

\* hyphen = (?<=[ap]m)\s(?=\d), hyphen.sub(" - ", s)
RECURSIVE HyphenSub(_, _)
HyphenSub(s, i) ==
    IF i > Len(s) THEN <<>>
    ELSE IF /\ s[i] \in SpaceChars
            /\ At(s, i - 2) \in {"a", "p"}
            /\ At(s, i - 1) = "m"
            /\ IsDigit(s, i + 1)
         THEN <<" ", "-", " ">> \o HyphenSub(s, i + 1)
         ELSE <<s[i]>> \o HyphenSub(s, i + 1)

\* \d{1,2}:\d{2} [AP]M at i with an hour of h digits
ClockLen(s, i, h) ==
    /\ \A k \in 0..(h - 1) : IsDigit(s, i + k)
    /\ At(s, i + h) = ":"
    /\ IsDigit(s, i + h + 1)
    /\ IsDigit(s, i + h + 2)
    /\ At(s, i + h + 3) = " "
    /\ At(s, i + h + 4) \in {"A", "P"}
    /\ At(s, i + h + 5) = "M"

\* last index of the match of \d{1,2}:\d{2} [AP]M at i, 0 if none
ClockEnd(s, i) ==
    IF ClockLen(s, i, 2) THEN i + 7
    ELSE IF ClockLen(s, i, 1) THEN i + 6
    ELSE 0

\* split_schedule: re.match of
\* ([A-Za-z]+)\s*\r?\s*(\d{1,2}:\d{2} [AP]M)\s*(\d{1,2}:\d{2} [AP]M)
split_schedule(cell) ==
    LET e1 == RunEnd(cell, 1, LetterChars)
        b2 == RunEnd(cell, e1 + 1, SpaceChars) + 1
        e2 == ClockEnd(cell, b2)
        b3 == RunEnd(cell, e2 + 1, SpaceChars) + 1
        e3 == ClockEnd(cell, b3)
    IN IF e1 >= 1 /\ e2 > 0 /\ e3 > 0
       THEN [days |-> SubSeq(cell, 1, e1),
             start_time |-> SubSeq(cell, b2, e2),
             end_time |-> SubSeq(cell, b3, e3)]
       ELSE [days |-> None, start_time |-> None, end_time |-> None]

\* titleSearch.match(c):
\* \d+:\d\d [AP]M\s+(U+2010|-)\s+\d+:\d\d\s[AP]M\sExams
titleSearch(c) ==
    LET d1 == RunEnd(c, 1, DigitChars)
        w1 == RunEnd(c, d1 + 7, SpaceChars)
        w2 == RunEnd(c, w1 + 2, SpaceChars)
        d2 == RunEnd(c, w2 + 1, DigitChars)
    IN /\ d1 >= 1
       /\ At(c, d1 + 1) = ":"
       /\ IsDigit(c, d1 + 2) /\ IsDigit(c, d1 + 3)
       /\ At(c, d1 + 4) = " "
       /\ At(c, d1 + 5) \in {"A", "P"}
       /\ At(c, d1 + 6) = "M"
       /\ w1 >= d1 + 7
       /\ At(c, w1 + 1) \in HyphenChars
       /\ w2 >= w1 + 2
       /\ d2 >= w2 + 1
       /\ At(c, d2 + 1) = ":"
       /\ IsDigit(c, d2 + 2) /\ IsDigit(c, d2 + 3)
       /\ At(c, d2 + 4) \in SpaceChars
       /\ At(c, d2 + 5) \in {"A", "P"}
       /\ At(c, d2 + 6) = "M"
       /\ At(c, d2 + 7) \in SpaceChars
       /\ LiteralAt(c, d2 + 8, <<"E", "x", "a", "m", "s">>)

(***************************************************************************)
(* Parser.parseBlock (Parse.py 80-199): the body of the row loops          *)
(***************************************************************************)
MaxChunks == 2
MaxRows == 4

\* rows of a V1 block as extracted: c0 is the Days cell, c1 the Time cell with
\* the class times and, merged into it, the exam date or the exam time range
RowsV1 ==
    { [c0 |-> <<"M">>, c1 |-> <<"8", ":", "0", "0", " ", "A", "M", " ", "8", ":", "5", "0", " ", "A", "M", " ", "M", "o", "n", "d", "a", "y", ",", " ", "D", "e", "c", " ", "9">>],
      [c0 |-> <<"M", "W">>, c1 |-> <<"9", ":", "0", "0", " ", "A", "M", " ", "9", ":", "5", "0", " ", "A", "M", " ", "8", ":", "0", "0", " ", "A", "M", " ", "-", " ", "1", "0", ":", "5", "0", " ", "A", "M">>],
      [c0 |-> <<"T", "R">>, c1 |-> <<"2", ":", "0", "0", " ", "P", "M", " ", "2", ":", "5", "0", " ", "P", "M">>],
      [c0 |-> <<"F">>, c1 |-> <<"3", ":", "0", "0", " ", "P", "M", " ", "3", ":", "5", "0", " ", "P", "M", " ", "T", "u", "e", "s", ",", " ", "D", "e", "c", " ", "1", "0">>],
      [c0 |-> <<"W">>, c1 |-> NaN] }

\* rows of a V2/V3 block as extracted: c0 holds days and class times, c1 the
\* exam date and time range of the rows from there on, or nothing
RowsV2 ==
    { [c0 |-> <<"M", "W", "2", ":", "0", "0", " ", "P", "M", "2", ":", "5", "0", " ", "P", "M">>, c1 |-> <<"M", "o", "n", "d", "a", "y", ",", " ", "A", "p", "r", " ", "2", "8", "CR", "2", ":", "4", "0", " ", "P", "M", " ", "-", " ", "5", ":", "3", "0", " ", "P", "M">>],
      [c0 |-> <<"T", "R", "8", ":", "0", "0", " ", "A", "M", "9", ":", "1", "5", " ", "A", "M">>, c1 |-> NaN],
      [c0 |-> <<"M", "W", "F", "CR", "2", ":", "0", "0", " ", "P", "M", "2", ":", "5", "0", " ", "P", "M">>, c1 |-> <<"T", "h", "u", "r", "s", "d", "a", "y", ",", " ", "M", "a", "y", " ", "1", "CR", "6", ":", "0", "0", " ", "P", "M", " ", "-", " ", "8", ":", "5", "0", " ", "P", "M">>],
      [c0 |-> <<"F", "8", ":", "2", "5", " ", "A", "M", "1", "0", ":", "2", "0", " ", "A", "M">>, c1 |-> <<"F", "r", "i", "d", "a", "y", ",", " ", "A", "p", "r", " ", "2", "5">>],
      [c0 |-> <<"T", "B", "A">>, c1 |-> NaN],
      [c0 |-> NaN, c1 |-> NaN] }

\* the labels of the section column of a V1 table
TitlesV1 ==
    { <<"8", ":", "0", "0", " ", "A", "M", " ", "-", " ", "1", "0", ":", "5", "0", " ", "A", "M", " ", "E", "x", "a", "m", "s">>,
      <<"2", ":", "4", "0", " ", "P", "M", " ", "-", " ", "5", ":", "3", "0", " ", "P", "M", " ", "E", "x", "a", "m", "s">> }

\* the column labels of a V2/V3 chunk
ChunkColumns ==
    { << <<"8", ":", "0", "0", " ", "A", "M", " ", "-", " ", "1", "0", ":", "5", "0", " ", "A", "M", " ", "E", "x", "a", "m", "s">>, <<"U", "n", "n", "a", "m", "e", "d", ":", " ", "0">> >>,
      << <<"U", "n", "n", "a", "m", "e", "d", ":", " ", "0">>, <<"U", "n", "n", "a", "m", "e", "d", ":", " ", "1">> >>,
      << <<"2", ":", "4", "0", " ", "P", "M", " ", "-", " ", "5", ":", "3", "0", " ", "P", "M", " ", "E", "x", "a", "m", "s">>, <<"U", "n", "n", "a", "m", "e", "d", ":", " ", "0">>, <<"U", "n", "n", "a", "m", "e", "d", ":", " ", "1">> >>,
      << <<"C", "o", "m", "m", "o", "n", " ", "E", "x", "a", "m", "s">>, <<"U", "n", "n", "a", "m", "e", "d", ":", " ", "0">> >>,
      << <<"R", "e", "a", "d", "i", "n", "g", " ", "a", "n", "d", " ", "C", "o", "n", "f", "l", "i", "c", "t", " ", "P", "e", "r", "i", "o", "d", "s">>, <<"U", "n", "n", "a", "m", "e", "d", ":", " ", "0">> >> }

ReadingLabel == <<"R", "e", "a", "d", "i", "n", "g", " ", "a", "n", "d", " ", "C", "o", "n", "f", "l", "i", "c", "t", " ", "P", "e", "r", "i", "o", "d", "s">>
CommonLabel == <<"C", "o", "m", "m", "o", "n", " ", "E", "x", "a", "m", "s">>

\* version 1, lines 140-151: one iteration of the loop on the row raw.
\* A cell that is no str raises TypeError in dateSearch.sub, and row[1]
\* raises KeyError when integer keys are labels (cow): both caught at 147,
\* before date() or time() ran. Else row[1] = ... writes the row of the block.
RowV1(raw, secDate, secTime, year, cow) ==
    IF cow \/ ~IsStr(raw.c1)
    THEN [row |-> [Days |-> raw.c0, Time |-> raw.c1,
                   finalDate |-> secDate, finalTime |-> secTime],
          sectionDate |-> secDate, sectionTime |-> secTime, raised |-> FALSE]
    ELSE LET d == DateSub(raw.c1, 1, secDate, year)
             t == TimeSub(d.text, 1, secTime)
             own == convertTimeGroup(HyphenSub(Lower(t.text), 1))
         IN [row |-> [Days |-> raw.c0, Time |-> own,
                      finalDate |-> d.sectionDate, finalTime |-> t.sectionTime],
             sectionDate |-> d.sectionDate, sectionTime |-> t.sectionTime,
             raised |-> FALSE]

\* version 2, lines 186-195: one iteration of the loop on the row raw.
\* row[0] raises KeyError when integer keys are labels (cow), re.match raises
\* TypeError on a cell that is no str, both at line 187; None.lower() raises
\* AttributeError at line 195 when split_schedule returned None, None, None,
\* after lines 192-194 have written the row.
RowV2(raw, secDate, secTime, year, cow) ==
    IF cow \/ ~IsStr(raw.c0)
    THEN [row |-> [Days |-> raw.c0, Time |-> raw.c1,
                   finalDate |-> NaN, finalTime |-> NaN],
          sectionDate |-> secDate, sectionTime |-> secTime, raised |-> TRUE]
    ELSE LET m == split_schedule(raw.c0)
             d == IF IsStr(raw.c1) THEN DateSub(raw.c1, 1, secDate, year)
                  ELSE [text |-> raw.c1, sectionDate |-> secDate]
             t == IF IsStr(raw.c1) THEN TimeSub(d.text, 1, secTime)
                  ELSE [text |-> raw.c1, sectionTime |-> secTime]
         IN IF m.start_time = None
            THEN [row |-> [Days |-> m.days, Time |-> raw.c1,
                           finalDate |-> d.sectionDate, finalTime |-> t.sectionTime],
                  sectionDate |-> d.sectionDate, sectionTime |-> t.sectionTime,
                  raised |-> TRUE]
            ELSE [row |-> [Days |-> m.days,
                           Time |-> convertTimeGroup(Lower(m.start_time)
                                        \o <<" ", "-", " ">> \o Lower(m.end_time)),
                           finalDate |-> d.sectionDate, finalTime |-> t.sectionTime],
                  sectionDate |-> d.sectionDate, sectionTime |-> t.sectionTime,
                  raised |-> FALSE]

\* parseBlock without line 154
BackFillSkipped(rows, cow) == rows

\* line 154: block['finalTime'].iloc[0] = block['finalTime'].iloc[1]; the write
\* reaches the block only when the selected column is a view of it
BackFill(rows, cow) ==
    IF cow THEN rows
    ELSE [rows EXCEPT ![1] = [@ EXCEPT !.finalTime = rows[2].finalTime]]

\* x.str.strip() and x.str.replace(U+2010, "-") on one cell: a cell that is
\* no str stays a missing value
CleanCell(x) == IF IsStr(x) THEN ReplaceHyphen(Strip(x)) ELSE x

CleanRow(r) ==
    [Days |-> CleanCell(r.Days), Time |-> CleanCell(r.Time),
     finalDate |-> CleanCell(r.finalDate), finalTime |-> CleanCell(r.finalTime)]

\* lines 339-340, 420-421, 498-499: the rows keep their order and their
\* number; set_index only makes (Days, Time) the index
CleanAndIndex(rows) == [i \in 1..Len(rows) |-> CleanRow(rows[i])]

(***************************************************************************)
(* ParserV1/V2/V3.parseFile over the chunks of self.read, row by row       *)
(***************************************************************************)
TimeIdle ==
    /\ time_group = <<>>
    /\ timeResult = NoResult

\* the layout version and the pandas generation the call runs with
InitParse ==
    /\ version \in {1, 2, 3}
    /\ copyOnWrite \in BOOLEAN
    /\ ppc = "chunks"
    /\ nchunks = 0
    /\ nblocks = 0
    /\ sections = {}
    /\ blockIn = <<>>
    /\ block = <<>>
    /\ sectionDate = <<>>
    /\ sectionTime = <<>>
    /\ schedule = <<>>
    /\ TimeIdle
    /\ ReviseIdle
    /\ ProcessIdle
    /\ CommonIdle

\* parseBlock starts on a block: lines 133-134, 170-171
EnterBlock ==
    /\ ppc' = "rows"
    /\ blockIn' = <<>>
    /\ block' = <<>>
    /\ sectionDate' = <<>>
    /\ sectionTime' = <<>>

\* ParserV1.parseFile, lines 325-338: the next section of a chunk; a section
\* whose label is in sections is skipped
BeginBlockV1 ==
    /\ version = 1
    /\ ppc = "chunks"
    /\ nchunks < MaxChunks
    /\ nchunks' = nchunks + 1
    /\ \E title \in TitlesV1 :
         IF title \in sections
         THEN UNCHANGED <<ppc, sections, blockIn, block, sectionDate, sectionTime>>
         ELSE /\ sections' = sections \cup {title}
              /\ EnterBlock
    /\ UNCHANGED <<version, copyOnWrite, nblocks, schedule>>
    /\ UNCHANGED <<timeVars, reviseVars, processVars, commonVars>>

\* the columns parseBlock gets: V3 keeps the first two (line 491)
BlockColumns(v, cols) ==
    IF v = 3 /\ Len(cols) > 2 THEN SubSeq(cols, 1, 2) ELSE cols

HasLabel(cols, label) == \E i \in 1..Len(cols) : cols[i] = label

\* ParserV2/V3.parseFile, lines 414-418 and 489-496, and parseBlock lines
\* 158-168: the next chunk. hasRows: the chunk has the leading rows that
\* lines 162-165 drop (else drop raises KeyError); a block that has not two
\* columns makes line 168 raise ValueError.
BeginBlockV2 ==
    /\ version \in {2, 3}
    /\ ppc = "chunks"
    /\ nchunks < MaxChunks
    /\ nchunks' = nchunks + 1
    /\ \E cols \in ChunkColumns, hasRows \in BOOLEAN :
         LET c == BlockColumns(version, cols) IN
         IF HasLabel(c, ReadingLabel) \/ HasLabel(c, CommonLabel)
         THEN UNCHANGED <<ppc, blockIn, block, sectionDate, sectionTime>>
         ELSE IF ~hasRows \/ Len(c) # 2
         THEN /\ ppc' = "raised"
              /\ UNCHANGED <<blockIn, block, sectionDate, sectionTime>>
         ELSE EnterBlock
    /\ UNCHANGED <<version, copyOnWrite, nblocks, sections, schedule>>
    /\ UNCHANGED <<timeVars, reviseVars, processVars, commonVars>>

\* one iteration of the version 1 loop, lines 140-151
ParseRowV1 ==
    /\ version = 1
    /\ ppc = "rows"
    /\ Len(schedule) + Len(blockIn) < MaxRows
    /\ \E raw \in RowsV1 :
         LET r == RowV1(raw, sectionDate, sectionTime, YearOf(FileStem), copyOnWrite) IN
         /\ blockIn' = Append(blockIn, raw)
         /\ block' = Append(block, r.row)
         /\ sectionDate' = r.sectionDate
         /\ sectionTime' = r.sectionTime
    /\ UNCHANGED <<version, copyOnWrite, ppc, nchunks, nblocks, sections, schedule>>
    /\ UNCHANGED <<timeVars, reviseVars, processVars, commonVars>>

\* one iteration of the version 2 loop, lines 186-195
ParseRowV2 ==
    /\ version \in {2, 3}
    /\ ppc = "rows"
    /\ Len(schedule) + Len(blockIn) < MaxRows
    /\ \E raw \in RowsV2 :
         LET r == RowV2(raw, sectionDate, sectionTime, YearOf(FileStem), copyOnWrite) IN
         /\ blockIn' = Append(blockIn, raw)
         /\ block' = Append(block, r.row)
         /\ sectionDate' = r.sectionDate
         /\ sectionTime' = r.sectionTime
         /\ ppc' = IF r.raised THEN "raised" ELSE "rows"
    /\ UNCHANGED <<version, copyOnWrite, nchunks, nblocks, sections, schedule>>
    /\ UNCHANGED <<timeVars, reviseVars, processVars, commonVars>>

\* version 1, lines 153-155 and 338: the back-fill (IndexError, or KeyError
\* on a block without rows, when there is no second row), return block, concat
EndBlockV1 ==
    /\ version = 1
    /\ ppc = "rows"
    /\ IF Len(block) < 2
       THEN /\ ppc' = "raised"
            /\ UNCHANGED <<block, schedule, nblocks>>
       ELSE /\ block' = BackFill(block, copyOnWrite)
            /\ schedule' = schedule \o block'
            /\ nblocks' = nblocks + 1
            /\ ppc' = "chunks"
    /\ UNCHANGED <<version, copyOnWrite, nchunks, sections, blockIn,
                   sectionDate, sectionTime>>
    /\ UNCHANGED <<timeVars, reviseVars, processVars, commonVars>>

\* version 2, lines 197 and 418/496: return block, concat
EndBlockV2 ==
    /\ version \in {2, 3}
    /\ ppc = "rows"
    /\ schedule' = schedule \o block
    /\ nblocks' = nblocks + 1
    /\ ppc' = "chunks"
    /\ UNCHANGED <<version, copyOnWrite, nchunks, sections, blockIn, block,
                   sectionDate, sectionTime>>
    /\ UNCHANGED <<timeVars, reviseVars, processVars, commonVars>>

\* lines 339-341, 420-422, 498-500, after the last chunk: strip, replace,
\* set_index (KeyError when nothing was concatenated: no column Days)
FinishParse ==
    /\ ppc = "chunks"
    /\ IF nblocks = 0
       THEN /\ ppc' = "raised"
            /\ UNCHANGED schedule
       ELSE /\ ppc' = "done"
            /\ schedule' = CleanAndIndex(schedule)
    /\ UNCHANGED <<version, copyOnWrite, nchunks, nblocks, sections, blockIn,
                   block, sectionDate, sectionTime>>
    /\ UNCHANGED <<timeVars, reviseVars, processVars, commonVars>>

NextParse ==
    \/ BeginBlockV1
    \/ BeginBlockV2
    \/ ParseRowV1
    \/ ParseRowV2
    \/ EndBlockV1
    \/ EndBlockV2
    \/ FinishParse

SpecParse == InitParse /\ [][NextParse]_vars

(***************************************************************************)
(* Properties of parseBlock and parseFile                                  *)
(***************************************************************************)
\* a cell that holds a value: a str that is not empty
Populated(x) == IsStr(x) /\ x # <<>>

SameKey(r1, r2) == r1.Days = r2.Days /\ r1.Time = r2.Time

\* C1: in the schedule table that parseFile assembled, every row has
\* finalDate and finalTime both populated or both empty/null.
C1_DateAndTimeTogether ==
    ppc = "done" =>
        \A i \in 1..Len(schedule) :
            Populated(schedule[i].finalDate) <=> Populated(schedule[i].finalTime)

\* an assembled table with a row that has an exam date and no exam time
C1_DateWithoutTime ==
    /\ ppc = "done"
    /\ \E i \in 1..Len(schedule) :
         Populated(schedule[i].finalDate) /\ ~Populated(schedule[i].finalTime)

\* C2: the schedule table that parseFile assembled has at most one row per
\* (Days, Time) key.
C2_OneRowPerKey ==
    ppc = "done" =>
        \A i, j \in 1..Len(schedule) :
            SameKey(schedule[i], schedule[j]) => i = j

\* an assembled table with the same key in rows of two different blocks
C2_KeyInTwoBlocks ==
    /\ ppc = "done"
    /\ nblocks = 2
    /\ \E i \in 1..Len(schedule) : \E j \in (i + 1)..Len(schedule) :
         /\ SameKey(schedule[i], schedule[j])
         /\ schedule[i].finalDate # schedule[j].finalDate

\* column 0 of the extracted row does not match the day/time grammar
GrammarMismatch(raw) == IsStr(raw.c0) /\ split_schedule(raw.c0).days = None

\* C7: in V2/V3 a row whose column 0 does not match the day/time grammar
\* fails silently: parseBlock does not raise and the row stays in the table
\* with undefined Days/Time.
C7_MismatchIsSilent ==
    version \in {2, 3} =>
        \A k \in 1..Len(blockIn) :
            GrammarMismatch(blockIn[k]) =>
                /\ ppc # "raised"
                /\ Len(block) >= k
                /\ ~IsStr(block[k].Days)

\* parseBlock raised on a row that does not match the grammar
C7_MismatchRaises ==
    /\ version \in {2, 3}
    /\ ppc = "raised"
    /\ blockIn # <<>>
    /\ GrammarMismatch(blockIn[Len(blockIn)])

\* the exam time row k of the block at work had when the loop left it
LoopFinalTime(k) ==
    RowV1(blockIn[k], <<>>, <<>>, YearOf(FileStem), copyOnWrite).row.finalTime

\* C11: when parseBlock with version 1 has returned a block, row 0 of the
\* block carries the finalTime of row 1.
C11_FirstRowBackFilled ==
    (version = 1 /\ ppc = "chunks" /\ block # <<>>) =>
        /\ Len(block) >= 2
        /\ block[1].finalTime = block[2].finalTime

\* a returned V1 block whose first row had no exam time of its own and
\* carries the time that the second row resolved
C11_TimeTakenFromSecondRow ==
    /\ version = 1
    /\ ppc = "chunks"
    /\ Len(block) >= 2
    /\ LoopFinalTime(1) = <<>>
    /\ block[1].finalTime # <<>>
    /\ block[1].finalTime = block[2].finalTime

\* ---------------------------------------------------------------------
\* Revise.process: projection of the two tables on the term's catalog
\* ---------------------------------------------------------------------

\* parser.common when parseCommon found no "Common Exams" chunk: an empty
\* DataFrame without columns; otherwise the rows by course
NoCommon == [columns |-> FALSE, rows |-> <<>>]
CommonTable(rows) == [columns |-> TRUE, rows |-> rows]

\* the slot value of a meeting that has no final exam index yet
Unset == -1

\* the final dates and final times of the tables, in the order of Python's
\* string comparison (the order np.sort and np.unique produce)
DateOrder == <<"", "Apr 25, 2025", "Apr 28, 2025">>
TimeOrder == <<"", "0800 - 1050", "1440 - 1730">>

\* data['caches']['periods'] and data['caches']['scheduleTypes']
PeriodsCache == <<"0800 - 0915", "1400 - 1450">>
ScheduleTypesCache == <<"Lecture*", "Supervised Laboratory*">>

\* the (Days, Time) keys of the schedule table
ScheduleKeys == {<<"TR", "0800 - 0915">>, <<"MW", "1400 - 1450">>}

\* the finalDate, finalTime pairs of schedule rows
ScheduleExams ==
    { [finalDate |-> "", finalTime |-> ""],
      [finalDate |-> "Apr 28, 2025", finalTime |-> "1440 - 1730"],
      [finalDate |-> "Apr 25, 2025", finalTime |-> "0800 - 1050"] }

\* the Date, Time pairs of common exam rows
CommonExams ==
    { [Date |-> "Apr 28, 2025", Time |-> "0800 - 1050"],
      [Date |-> "Apr 25, 2025", Time |-> "1440 - 1730"] }

\* the course identifiers of the catalog
CourseCS == <<"C", "S", " ", "1", "3", "3", "1">>
CourseMATH == <<"M", "A", "T", "H", " ", "1", "5", "5", "1">>
CourseVIP == <<"V", "I", "P", " ", "3", "6", "0", "1">>
Courses == {CourseCS, CourseMATH, CourseVIP}

\* sectionData: data[1] the meetings (periodIdx, days, slots 6 and 7 of the
\* first meeting), data[2] the credits, data[3] the schedule type index
\* (indices are Python's, from 0)
Meeting(periodIdx, days) ==
    [periodIdx |-> periodIdx, days |-> days, slot6 |-> Unset, slot7 |-> Unset]

SectionDatas ==
    { [meetings |-> <<Meeting(1, "MW")>>, credits |-> 3, scheduleTypeIdx |-> 0],
      [meetings |-> <<Meeting(0, "TR")>>, credits |-> 3, scheduleTypeIdx |-> 0],
      [meetings |-> <<Meeting(1, "MW")>>, credits |-> 1, scheduleTypeIdx |-> 0],
      [meetings |-> <<Meeting(1, "MW")>>, credits |-> 3, scheduleTypeIdx |-> 1],
      [meetings |-> <<>>, credits |-> 3, scheduleTypeIdx |-> 0] }

\* functions with a domain that is any subset of S
PartialFunctions(S, T) == UNION { [D -> T] : D \in SUBSET S }

\* the values of a set in the order of the sequence: np.unique / np.sort
SortedUnique(S, order) == SelectSeq(order, LAMBDA x : x \in S)

\* dates (finalDates = TRUE) or times: with an empty schedule the list is
\* np.array([]) whatever the common table holds
UniqueList(sched, common, finalDates) ==
    IF DOMAIN sched = {}
    THEN <<>>
    ELSE IF finalDates
         THEN SortedUnique({sched[k].finalDate : k \in DOMAIN sched}
                               \cup {common.rows[c].Date : c \in DOMAIN common.rows},
                           DateOrder)
         ELSE SortedUnique({sched[k].finalTime : k \in DOMAIN sched}
                               \cup {common.rows[c].Time : c \in DOMAIN common.rows},
                           TimeOrder)

\* self.common['Date'] on a DataFrame without columns: KeyError, evaluated
\* only when the schedule is not empty
ListsRaise(sched, common) == DOMAIN sched # {} /\ ~common.columns

\* course in self.common.index
InCommon(common, course) == course \in DOMAIN common.rows

\* int(np.where(list == value)[0][0]): the position from 0, or IndexError
IndexError == -2
WhereFirst(list, value) ==
    IF \E i \in 1..Len(list) : list[i] = value
    THEN (CHOOSE i \in 1..Len(list) : list[i] = value) - 1
    ELSE IndexError

\* vip.search(course), regex VIP\s\d+
VipSearch(course) ==
    \E i \in 1..Len(course) :
        /\ LiteralAt(course, i, <<"V", "I", "P">>)
        /\ At(course, i + 3) \in SpaceChars
        /\ IsDigit(course, i + 4)

\* Section(sectionData) raises (caught by the bare except: section skipped)
SectionRaises(sectionData) == Len(sectionData.meetings) = 0

\* the section attributes read from the caches
SectionPeriod(sectionData) == PeriodsCache[sectionData.meetings[1].periodIdx + 1]
SectionScheduleType(sectionData) == ScheduleTypesCache[sectionData.scheduleTypeIdx + 1]

\* the test of line 126, negated: the section is handled
PassesFilter(sectionData) ==
    /\ SectionScheduleType(sectionData) = "Lecture*"
    /\ sectionData.credits >= 2

\* lookup(days, period): the key of the row or None
lookup(sched, days, period) ==
    IF <<days, period>> \in DOMAIN sched THEN <<days, period>> ELSE None

\* no row: lookup returned None and the course is not in the common table
NoExam == [date |-> "None", time |-> "None"]

\* the exam the loop body finds for a section that is handled: the common
\* row first, else the schedule row, else NoExam
FoundExam(sched, common, course, sectionData) ==
    IF InCommon(common, course)
    THEN [date |-> common.rows[course].Date, time |-> common.rows[course].Time]
    ELSE LET key == lookup(sched, sectionData.meetings[1].days, SectionPeriod(sectionData))
         IN IF key = None
            THEN NoExam
            ELSE [date |-> sched[key].finalDate, time |-> sched[key].finalTime]

\* the loop body reaches the sets of a section
Handled(course, sectionData) ==
    /\ ~VipSearch(course)
    /\ ~SectionRaises(sectionData)
    /\ PassesFilter(sectionData)

\* section.set(6, dateIdx); section.set(7, timeIdx)
SetSlots(sectionData, dateIdx, timeIdx) ==
    [sectionData EXCEPT !.meetings[1].slot6 = dateIdx, !.meetings[1].slot7 = timeIdx]

\* the section after the loop body
ReviseSection(sched, common, dates, times, course, sectionData) ==
    IF ~Handled(course, sectionData)
    THEN sectionData
    ELSE LET exam == FoundExam(sched, common, course, sectionData)
         IN IF exam = NoExam
            THEN sectionData
            ELSE SetSlots(sectionData, WhereFirst(dates, exam.date),
                                       WhereFirst(times, exam.time))

\* np.where(...)[0][0] raises in the loop body of some section
LoopRaises(sched, common, dates, times, data) ==
    \E course \in DOMAIN data.courses :
        LET sectionData == data.courses[course]
            exam == FoundExam(sched, common, course, sectionData)
        IN /\ Handled(course, sectionData)
           /\ exam # NoExam
           /\ \/ WhereFirst(dates, exam.date) = IndexError
              \/ WhereFirst(times, exam.time) = IndexError

\* the document json.dump writes
RevisedData(sched, common, data) ==
    LET dates == UniqueList(sched, common, TRUE)
        times == UniqueList(sched, common, FALSE)
    IN [finalDates |-> dates,
        finalTimes |-> times,
        courses |-> [course \in DOMAIN data.courses |->
                        ReviseSection(sched, common, dates, times, course,
                                      data.courses[course])]]

\* process raises before json.dump
ProcessRaises(sched, common, data) ==
    \/ ListsRaise(sched, common)
    \/ LoopRaises(sched, common, UniqueList(sched, common, TRUE),
                  UniqueList(sched, common, FALSE), data)

\* the tables of one term and its catalog document, before process
InitProcess ==
    /\ TimeIdle
    /\ ReviseIdle
    /\ ParseIdle
    /\ CommonIdle
    /\ rSchedule \in PartialFunctions(ScheduleKeys, ScheduleExams)
    /\ rCommon \in {NoCommon} \cup
           {CommonTable(rows) : rows \in PartialFunctions({CourseCS, CourseMATH}, CommonExams)}
    /\ \E secs \in [Courses -> SectionDatas] :
           dataIn = [finalDates |-> <<>>, finalTimes |-> <<>>, courses |-> secs]
    /\ dataFile = dataIn
    /\ prc = "start"

\* Revise.process, the whole call
process ==
    /\ prc = "start"
    /\ IF ProcessRaises(rSchedule, rCommon, dataIn)
       THEN /\ prc' = "raised"
            /\ dataFile' = dataFile
       ELSE /\ prc' = "returned"
            /\ dataFile' = RevisedData(rSchedule, rCommon, dataIn)
    /\ UNCHANGED <<rSchedule, rCommon, dataIn>>
    /\ UNCHANGED <<timeVars, reviseVars, parseVars, commonVars>>

NextProcess == process

SpecProcess == InitProcess /\ [][NextProcess]_vars

\* ---------------------------------------------------------------------
\* Properties of Revise.process
\* ---------------------------------------------------------------------

\* the section is eligible: schedule type Lecture*, at least 2 credits,
\* not a VIP course
Eligible(course) ==
    /\ ~VipSearch(course)
    /\ SectionScheduleType(dataIn.courses[course]) = "Lecture*"
    /\ dataIn.courses[course].credits >= 2

\* the exam of a section: the common table by course first, the schedule
\* by (days, period) only when the course is not in the common table
HasMeeting(course) == Len(dataIn.courses[course].meetings) > 0

ExamOf(course) ==
    IF InCommon(rCommon, course)
    THEN [date |-> rCommon.rows[course].Date, time |-> rCommon.rows[course].Time]
    ELSE IF /\ HasMeeting(course)
            /\ <<dataIn.courses[course].meetings[1].days,
                 SectionPeriod(dataIn.courses[course])>> \in DOMAIN rSchedule
         THEN LET row == rSchedule[<<dataIn.courses[course].meetings[1].days,
                                     SectionPeriod(dataIn.courses[course])>>]
              IN [date |-> row.finalDate, time |-> row.finalTime]
         ELSE NoExam

\* the slots of the section in the file are indices of the exam's date and
\* time in the lists of the file
SlotsPointAt(course, exam) ==
    LET m == dataFile.courses[course].meetings[1]
    IN /\ m.slot6 \in 0..(Len(dataFile.finalDates) - 1)
       /\ m.slot7 \in 0..(Len(dataFile.finalTimes) - 1)
       /\ dataFile.finalDates[m.slot6 + 1] = exam.date
       /\ dataFile.finalTimes[m.slot7 + 1] = exam.time

\* C10: once process has ended, every eligible section with a first meeting
\* for which an exam is found (common table first, schedule otherwise) has
\* its slots 6 and 7 pointing at the exam's date and time in the file's
\* date and time lists, and every other section is as it was read
C10_SlotsWrittenIffEligibleAndFound ==
    prc \in {"returned", "raised"} =>
        \A course \in DOMAIN dataIn.courses :
            IF Eligible(course) /\ HasMeeting(course) /\ ExamOf(course) # NoExam
            THEN SlotsPointAt(course, ExamOf(course))
            ELSE dataFile.courses[course] = dataIn.courses[course]

\* C10: process has ended on a term with an eligible section whose exam is
\* found while nothing was written to the catalog
C10_FoundButNotWritten ==
    /\ prc = "raised"
    /\ \E course \in DOMAIN dataIn.courses :
           /\ Eligible(course) /\ HasMeeting(course) /\ ExamOf(course) # NoExam
           /\ dataFile.courses[course].meetings[1].slot6 = Unset

(***************************************************************************)
(* Parser.parseCommon (Parse.py 202-271)                                   *)
(***************************************************************************)
MaxCommonRows == 2

\* rows of the "Common Exams" chunk under its header row: c0 holds the
\* courses and the exam date, c1 the exam time
CommonRowExample == [c0 |-> <<"C", "S", " ", "1", "3", "3", "1", "/", "1", "3", "3", "2", ",", " ", "C", "S", " ", "1", "3", "7", "1", " ", " ", "T", "h", "u", "r", "s", ",", " ", "A", "p", "r", " ", "2", "5">>, c1 |-> <<"2", ":", "4", "0", " ", "p", "m", " ", "5", ":", "3", "0", " ", "p", "m">>]
CommonRowNone == [c0 |-> <<"N", "o", "n", "e", "CR", "F", "r", "i", ",", " ", "A", "p", "r", " ", "2", "6">>, c1 |-> <<"8", ":", "0", "0", " ", "A", "M", " ", "-", " ", "1", "0", ":", "5", "0", " ", "A", "M">>]
CommonRowAgain == [c0 |-> <<"C", "S", " ", "1", "3", "7", "1", "CR", "T", "u", "e", "s", ",", " ", "A", "p", "r", " ", "3", "0">>, c1 |-> <<"6", ":", "0", "0", " ", "P", "M", "CR", "-", " ", "8", ":", "5", "0", " ", "P", "M">>]

CommonRowSlashes == [c0 |-> <<"M", "A", "T", "H", " ", "1", "5", "5", "1", "/", "1", "5", "5", "2", "/", "1", "5", "5", "3", ",", " ", "P", "H", "Y", "S", " ", "2", "2", "1", "1", "/", "2", "2", "1", "2", " ", "M", "o", "n", ",", " ", "A", "p", "r", " ", "2", "9">>,
                     c1 |-> <<"1", "1", ":", "2", "0", " ", "A", "M", " ", "-", " ", "2", ":", "1", "0", " ", "P", "M">>]

CommonRows ==
    { CommonRowExample, CommonRowNone, CommonRowAgain, CommonRowSlashes,
      \* the day and the month written out: the pattern does not match
      [c0 |-> <<"P", "H", "Y", "S", " ", "2", "2", "1", "1", " ", "M", "o", "n", "d", "a", "y", ",", " ", "A", "p", "r", "i", "l", " ", "2", "9">>,
       c1 |-> <<"2", ":", "4", "0", " ", "P", "M", " ", "-", " ", "5", ":", "3", "0", " ", "P", "M">>],
      \* no time cell
      [c0 |-> <<"M", "A", "T", "H", " ", "1", "5", "5", "1", "/", "1", "5", "5", "2", " ", "W", "e", "d", ",", " ", "M", "a", "y", " ", "1">>,
       c1 |-> NaN],
      \* a space between None and the date
      [c0 |-> <<"N", "o", "n", "e", " ", "M", "o", "n", ",", " ", "A", "p", "r", " ", "2", "9">>,
       c1 |-> <<"1", "1", ":", "2", "0", " ", "A", "M", " ", "-", " ", "2", ":", "1", "0", " ", "P", "M">>] }

\* strip_carriage_return
StripCR(s) == SelectSeq(s, LAMBDA c : c # "CR")

\* the class [A-z]: the letters and the six characters between Z and a
\* ("GRAVE" is the grave accent)
AzChars == LetterChars \cup {"[", "\\", "]", "^", "_", "GRAVE"}

\* ([A-z]{3,5}, \w{3} \d{1,2}) at position p: last index of the match, 0 if none
CommonDateEnd(s, p) ==
    LET e == RunEnd(s, p, AzChars) IN
    IF /\ e - p + 1 >= 3
       /\ e - p + 1 <= 5
       /\ At(s, e + 1) = ","
       /\ At(s, e + 2) = " "
       /\ \A k \in 3..5 : At(s, e + k) \in WordChars
       /\ At(s, e + 6) = " "
       /\ IsDigit(s, e + 7)
    THEN IF IsDigit(s, e + 8) THEN e + 8 ELSE e + 7
    ELSE 0

\* group 1 ends at k and group 2 follows it
CommonGroups(s, k) ==
    [matched |-> TRUE, course |-> SubSeq(s, 1, k),
     date |-> SubSeq(s, k + 1, CommonDateEnd(s, k + 1))]

\* re.match(r'(None|.+?)([A-z]{3,5}, \w{3} \d{1,2})', s): the alternative None
\* first, then the shortest prefix the date pattern follows
CommonMatch(s) ==
    IF LiteralAt(s, 1, <<"N", "o", "n", "e">>) /\ CommonDateEnd(s, 5) > 0
    THEN CommonGroups(s, 4)
    ELSE IF \E k \in 1..Len(s) : CommonDateEnd(s, k + 1) > 0
    THEN CommonGroups(s, CHOOSE k \in 1..Len(s) :
                            /\ CommonDateEnd(s, k + 1) > 0
                            /\ \A j \in 1..(k - 1) : CommonDateEnd(s, j + 1) = 0)
    ELSE [matched |-> FALSE, course |-> s, date |-> <<>>]

\* lines 223-243 on a row that matched and has a str in column 1: Course and
\* Date from the match, Time from column 1, carriage returns removed, Time
\* lowered and converted
CommonFields(raw) ==
    [Course |-> StripCR(CommonMatch(raw.c0).course),
     Date |-> StripCR(CommonMatch(raw.c0).date),
     Time |-> convertTimeGroup(Lower(StripCR(raw.c1)))]

\* a row that makes lines 223-241 raise: re.match on a cell that is no str
\* (caught at 232, then KeyError at 237), no match (Time stays missing or the
\* column Time is never made) or no str in column 1 (AttributeError at 241)
CommonRowUnreadable(raw) ==
    \/ ~IsStr(raw.c0)
    \/ ~CommonMatch(raw.c0).matched
    \/ ~IsStr(raw.c1)

\* strptime(string, "%a, %b %d") (full = FALSE) or "%a, %B %d" (full = TRUE):
\* 0 for ValueError, else 100 * month + day
StrptimeAbbr(raw, full) ==
    LET e1 == RunEnd(raw, 1, LetterChars)
        s2 == RunEnd(raw, e1 + 2, SpaceChars) + 1
        e2 == RunEnd(raw, s2, LetterChars)
        s3 == RunEnd(raw, e2 + 1, SpaceChars) + 1
        name == Lower(SubSeq(raw, s2, e2))
        ms == {m \in 1..12 :
                 name = Lower(IF full THEN MonthTable[m].full ELSE MonthTable[m].abbr)}
        d == DayValue(SubSeq(raw, s3, Len(raw)))
    IN IF /\ Lower(SubSeq(raw, 1, e1)) \in {Lower(SubSeq(w, 1, 3)) : w \in WeekdayNames}
          /\ At(raw, e1 + 1) = ","
          /\ s2 > e1 + 2
          /\ ms # {}
          /\ s3 > e2 + 1
          /\ d >= 1
          /\ d <= MonthTable[CHOOSE m \in ms : TRUE].days
       THEN 100 * (CHOOSE m \in ms : TRUE) + d
       ELSE 0

\* day.sub(lambda match: match.group()[:3], val) with day = \w+(?=,), from
\* position i on
RECURSIVE DaySub(_, _)
DaySub(s, i) ==
    IF i > Len(s) THEN <<>>
    ELSE IF s[i] \notin WordChars THEN <<s[i]>> \o DaySub(s, i + 1)
    ELSE IF At(s, RunEnd(s, i, WordChars) + 1) = ","
    THEN SubSeq(s, i, IF RunEnd(s, i, WordChars) > i + 2 THEN i + 2
                      ELSE RunEnd(s, i, WordChars))
         \o DaySub(s, RunEnd(s, i, WordChars) + 1)
    ELSE SubSeq(s, i, RunEnd(s, i, WordChars)) \o DaySub(s, RunEnd(s, i, WordChars) + 1)

\* convert(val, day) before strftime: 0 when both formats raise ValueError
ConvertParsed(val) ==
    FirstParsed(<<StrptimeAbbr(DaySub(val, 1), FALSE), StrptimeAbbr(DaySub(val, 1), TRUE)>>)

\* the first index at which sep stands in s, 0 if none
FindSep(s, sep) ==
    IF \E i \in 1..Len(s) : LiteralAt(s, i, sep)
    THEN CHOOSE i \in 1..Len(s) :
             LiteralAt(s, i, sep) /\ \A j \in 1..(i - 1) : ~LiteralAt(s, j, sep)
    ELSE 0

\* str.split(sep)
RECURSIVE SplitOn(_, _)
SplitOn(s, sep) ==
    IF FindSep(s, sep) = 0 THEN <<s>>
    ELSE <<SubSeq(s, 1, FindSep(s, sep) - 1)>>
         \o SplitOn(SubSeq(s, FindSep(s, sep) + Len(sep), Len(s)), sep)

\* the end of the first word of a text that starts with a word
WordEnd(t) ==
    CHOOSE j \in 1..Len(t) :
        /\ j = Len(t) \/ t[j + 1] \in SpaceChars
        /\ \A k \in 1..j : t[k] \notin SpaceChars

\* str.split(): the words between runs of white space
RECURSIVE SplitWhite(_)
SplitWhite(s) ==
    IF Strip(s) = <<>> THEN <<>>
    ELSE <<SubSeq(Strip(s), 1, WordEnd(Strip(s)))>>
         \o SplitWhite(SubSeq(Strip(s), WordEnd(Strip(s)) + 1, Len(Strip(s))))

\* splitCourse(string); string.split()[1] raises IndexError on fewer than
\* two words
splitCourseRaises(string) == Len(SplitWhite(string)) < 2
\* splitCourse that keeps the first number only
splitCourseFirstNumber(string) ==
    LET course == SplitWhite(string)[1]
        numbers == SplitOn(SplitWhite(string)[2], <<"/">>)
    IN <<course \o <<" ">> \o numbers[1]>>
splitCourse(string) ==
    LET course == SplitWhite(string)[1]
        numbers == SplitOn(SplitWhite(string)[2], <<"/">>)
    IN [k \in 1..Len(numbers) |-> course \o <<" ">> \o numbers[k]]

\* lines 260-261: the mentions of a Course cell
Mentions(course) == SplitOn(course, <<",", " ">>)

\* lines 260-270 on one row that is kept: one entry per course of each
\* mention, all with the Date and Time of the row; row is the position of
\* the raw row (the index the first explode repeats)
EntriesOf(fields, md, year, r) ==
    LET courses == Concat([k \in 1..Len(Mentions(fields.Course)) |->
                              splitCourse(Mentions(fields.Course)[k])])
    IN [k \in 1..Len(courses) |->
           [Course |-> courses[k],
            Date |-> CleanCell(Strftime(md, year)),
            Time |-> CleanCell(fields.Time),
            row |-> r]]

\* a readable row is dropped by line 244
IsNoneRow(raw) == CommonFields(raw).Course = <<"N", "o", "n", "e">>

\* a readable row that is kept makes lines 257-268 raise
CommonRowRaises(raw) ==
    \/ ConvertParsed(CommonFields(raw).Date) = 0
    \/ \E k \in 1..Len(Mentions(CommonFields(raw).Course)) :
           splitCourseRaises(Mentions(CommonFields(raw).Course)[k])

\* parseCommon raises: integer keys are labels (row[0]: KeyError, caught at
\* 232, then KeyError at 237), no row at all (no column is left by dropna),
\* or a row that cannot be read or expanded
ParseCommonFails(rows, cow) ==
    \/ cow
    \/ rows = <<>>
    \/ \E r \in 1..Len(rows) : CommonRowUnreadable(rows[r])
    \/ \E r \in 1..Len(rows) : ~IsNoneRow(rows[r]) /\ CommonRowRaises(rows[r])

\* self.common when parseCommon returns
CommonResult(rows, year) ==
    Concat([r \in 1..Len(rows) |->
               IF IsNoneRow(rows[r]) THEN <<>>
               ELSE EntriesOf(CommonFields(rows[r]),
                              ConvertParsed(CommonFields(rows[r]).Date), year, r)])

\* the chunks of self.read and the pandas generation
InitCommon ==
    /\ TimeIdle
    /\ ReviseIdle
    /\ ProcessIdle
    /\ version = 0
    /\ copyOnWrite \in BOOLEAN
    /\ ppc = "idle"
    /\ nchunks = 0
    /\ nblocks = 0
    /\ sections = {}
    /\ blockIn = <<>>
    /\ block = <<>>
    /\ sectionDate = <<>>
    /\ sectionTime = <<>>
    /\ schedule = <<>>
    /\ commonChunk \in BOOLEAN
    /\ commonRows \in (IF commonChunk THEN SeqsUpTo(CommonRows, MaxCommonRows)
                       ELSE {<<>>})
    /\ commonTable = <<>>
    /\ cpc = "start"

\* Parser.parseCommon, the whole call
parseCommon ==
    /\ cpc = "start"
    /\ IF ~commonChunk
       THEN /\ cpc' = "returned"
            /\ commonTable' = commonTable
       ELSE IF ParseCommonFails(commonRows, copyOnWrite)
       THEN /\ cpc' = "raised"
            /\ commonTable' = commonTable
       ELSE /\ cpc' = "returned"
            /\ commonTable' = CommonResult(commonRows, YearOf(FileStem))
    /\ UNCHANGED <<commonChunk, commonRows>>
    /\ UNCHANGED <<timeVars, reviseVars, parseVars, processVars>>

SpecCommon == InitCommon /\ [][parseCommon]_vars

(***************************************************************************)
(* Properties of parseCommon                                               *)
(***************************************************************************)
\* C12: when parseCommon has returned, self.common holds exactly one entry
\* for each course identifier, so a look-up by course yields one
\* (Date, Time) pair.
C12_OneEntryPerCourse ==
    cpc = "returned" =>
        \A i, j \in 1..Len(commonTable) :
            commonTable[i].Course = commonTable[j].Course => i = j

\* C12: parseCommon has returned and self.common holds two entries for one
\* course, from different rows and with different dates.
C12_CourseKeptTwice ==
    /\ cpc = "returned"
    /\ \E i, j \in 1..Len(commonTable) :
           /\ i < j
           /\ commonTable[i].Course = commonTable[j].Course
           /\ commonTable[i].row # commonTable[j].row
           /\ commonTable[i].Date # commonTable[j].Date

\* the entries self.common holds for the raw row at position r
EntriesOfRow(r) == SelectSeq(commonTable, LAMBDA e : e.row = r)

\* what the rows that parseCommon can read are expected to give: the number
\* of catalog numbers of each mention, the course identifiers in order, and
\* the date and time of the row
C13_Expected(raw) ==
    IF raw = CommonRowExample
    THEN [numbers |-> <<2, 1>>,
          courses |-> <<<<"C", "S", " ", "1", "3", "3", "1">>, <<"C", "S", " ", "1", "3", "3", "2">>, <<"C", "S", " ", "1", "3", "7", "1">>>>,
          Date |-> <<"A", "p", "r", " ", "2", "5", ",", " ", "2", "0", "2", "5">>, Time |-> <<"1", "4", "4", "0", " ", "-", " ", "1", "7", "3", "0">>]
    ELSE IF raw = CommonRowAgain
    THEN [numbers |-> <<1>>,
          courses |-> <<<<"C", "S", " ", "1", "3", "7", "1">>>>,
          Date |-> <<"A", "p", "r", " ", "3", "0", ",", " ", "2", "0", "2", "5">>, Time |-> <<"1", "8", "0", "0", " ", "-", " ", "2", "0", "5", "0">>]
    ELSE IF raw = CommonRowSlashes
    THEN [numbers |-> <<3, 2>>,
          courses |-> <<<<"M", "A", "T", "H", " ", "1", "5", "5", "1">>, <<"M", "A", "T", "H", " ", "1", "5", "5", "2">>, <<"M", "A", "T", "H", " ", "1", "5", "5", "3">>, <<"P", "H", "Y", "S", " ", "2", "2", "1", "1">>, <<"P", "H", "Y", "S", " ", "2", "2", "1", "2">>>>,
          Date |-> <<"A", "p", "r", " ", "2", "9", ",", " ", "2", "0", "2", "5">>, Time |-> <<"1", "1", "2", "0", " ", "-", " ", "1", "4", "1", "0">>]
    ELSE [numbers |-> <<>>, courses |-> <<>>, Date |-> <<>>, Time |-> <<>>]

RECURSIVE SumSeq(_)
SumSeq(ns) == IF ns = <<>> THEN 0 ELSE Head(ns) + SumSeq(Tail(ns))

\* C13: when parseCommon has returned, every raw row has given as many
\* entries as its mentions have catalog numbers in total, one for each
\* department and number in order, each with the date and the time of the
\* row; a row whose course is None has given no entry.
C13_RowsExpanded ==
    (cpc = "returned" /\ commonChunk) =>
        \A r \in 1..Len(commonRows) :
            LET want == C13_Expected(commonRows[r])
                got == EntriesOfRow(r)
            IN /\ Len(got) = SumSeq(want.numbers)
               /\ [k \in 1..Len(got) |-> got[k].Course] = want.courses
               /\ \A k \in 1..Len(got) :
                      got[k].Date = want.Date /\ got[k].Time = want.Time
               /\ commonRows[r] = CommonRowNone => got = <<>>

\* C13: parseCommon has returned on a None row followed by the row
\* "CS 1331/1332, CS 1371  Thurs, Apr 25": the table holds CS 1331, CS 1332
\* and CS 1371, all three with Apr 25, 2025 and 1440 - 1730, and nothing else.
C13_ExampleExpanded ==
    /\ cpc = "returned"
    /\ commonRows = <<CommonRowNone, CommonRowExample>>
    /\ EntriesOfRow(1) = <<>>
    /\ [k \in 1..Len(commonTable) |-> commonTable[k].Course]
           = <<<<"C", "S", " ", "1", "3", "3", "1">>, <<"C", "S", " ", "1", "3", "3", "2">>, <<"C", "S", " ", "1", "3", "7", "1">>>>
    /\ \A k \in 1..Len(commonTable) :
           /\ commonTable[k].Date = <<"A", "p", "r", " ", "2", "5", ",", " ", "2", "0", "2", "5">>
           /\ commonTable[k].Time = <<"1", "4", "4", "0", " ", "-", " ", "1", "7", "3", "0">>

(***************************************************************************)
(* Properties of the section accumulator                                   *)
(***************************************************************************)
\* what the cell of row k of the block at work announces by itself: the
\* accumulators after the row when they were empty before it
Announced(k) == RowV2(blockIn[k], <<>>, <<>>, YearOf(FileStem), copyOnWrite)

\* the exam date of the latest row up to row k that announces one, the empty
\* string when no row up to k does
RECURSIVE LatestDate(_)
LatestDate(k) ==
    IF k = 0 THEN <<>>
    ELSE IF Announced(k).sectionDate # <<>> THEN Announced(k).sectionDate
    ELSE LatestDate(k - 1)

\* the same for the exam time range
RECURSIVE LatestTime(_)
LatestTime(k) ==
    IF k = 0 THEN <<>>
    ELSE IF Announced(k).sectionTime # <<>> THEN Announced(k).sectionTime
    ELSE LatestTime(k - 1)

====
